---- MODULE Spec2Model ----
(***************************************************************************)
(* r128.h: 128-bit (64.64) signed fixed-point arithmetic.                  *)
(*                                                                         *)
(* An R128 is a pair of machine words (lo, hi).  The library's algorithms  *)
(* are written in terms of the word width only (shifts by 64 - s, the top  *)
(* bit of a word, carries out of a word), so the model keeps every         *)
(* operation word for word and makes the width of R128_U64 a parameter,    *)
(* WordBits.  TLC's integers are 32 bits wide, so WordBits is small; the   *)
(* decimal digit limit of the formatter (20, the number of decimal digits  *)
(* of 2^64) is derived from WordBits in the same way.                      *)
(*                                                                         *)
(* The code paths modelled are those of the __x86_64__ build               *)
(* (R128_INTEL = 1, R128_64BIT = 1).  A failed R128_ASSERT, or a divq      *)
(* whose quotient does not fit, ends the program: operations that can      *)
(* reach one return a record with a trap field.                            *)
(***************************************************************************)
EXTENDS Integers, Sequences, FiniteSets

VARIABLES pc, a, b, res, text, endptr, fmt, dstSize, ret, scratch, num, amount,
          refine, ua, ub

vars == <<pc, a, b, res, text, endptr, fmt, dstSize, ret, scratch, num, amount,
          refine, ua, ub>>

-----------------------------------------------------------------------------
(* Word arithmetic *)

\* Width in bits of R128_U64 in the model.
WordBits == 4

RECURSIVE Pow(_, _)
Pow(x, n) == IF n = 0 THEN 1 ELSE x * Pow(x, n - 1)

\* 2^64 in the source: the number of values of an R128_U64.
Word == Pow(2, WordBits)

\* 2^63 in the source: the top bit of an R128_U64.
TopBit == Pow(2, WordBits - 1)

\* 2^128 in the source: the number of values of an R128.
Word2 == Word * Word

U64 == 0 .. Word - 1

\* (R128_U64)x
ToU64(x) == x % Word

\* (R128_S64)x
ToS64(x) == IF x >= TopBit THEN x - Word ELSE x

\* ~x on an R128_U64
Not64(x) == Word - 1 - x

\* x << s and x >> s on an R128_U64, 0 <= s < WordBits
Shl64(x, s) == (x * Pow(2, s)) % Word
Shr64(x, s) == x \div Pow(2, s)

R128 == [lo : U64, hi : U64]

MkR128(l, h) == [lo |-> l, hi |-> h]

\* The unsigned 128-bit integer (hi:lo), and back.
Raw(v) == v.hi * Word + v.lo
FromRaw(n) == [lo |-> n % Word, hi |-> (n \div Word) % Word]

R128_min == [lo |-> 0, hi |-> TopBit]
R128_max == [lo |-> Word - 1, hi |-> TopBit - 1]
R128_smallest == [lo |-> 1, hi |-> 0]
R128_zero == [lo |-> 0, hi |-> 0]
R128_one == [lo |-> 0, hi |-> 1]

-----------------------------------------------------------------------------
(* Wide primitives *)

r128__clz64(x) ==
    IF x = 0 THEN WordBits
    ELSE WordBits - (CHOOSE k \in 1 .. WordBits : Pow(2, k - 1) <= x /\ x < Pow(2, k))

\* 64*64->128
r128__umul128(x, y) == [lo |-> (x * y) % Word, hi |-> (x * y) \div Word]

\* 128/64->64 (divq): faults when d = 0 or the quotient does not fit (nhi >= d).
r128__udiv128(nlo, nhi, d) ==
    IF d = 0 \/ nhi >= d
    THEN [trap |-> TRUE, q |-> 0, r |-> 0]
    ELSE [trap |-> FALSE, q |-> (nhi * Word + nlo) \div d, r |-> (nhi * Word + nlo) % d]

r128__ucmp(x, y) ==
    IF x.hi = y.hi
    THEN (IF x.hi > y.hi THEN 1 ELSE -1)
    ELSE IF x.lo = y.lo
    THEN 0
    ELSE (IF x.lo > y.lo THEN 1 ELSE -1)

-----------------------------------------------------------------------------
(* Bitwise and additive *)

r128Not(src) == [lo |-> Not64(src.lo), hi |-> Not64(src.hi)]

r128Add(x, y) ==
    LET carry == (x.lo + y.lo) \div Word
    IN  [lo |-> (x.lo + y.lo) % Word, hi |-> (x.hi + y.hi + carry) % Word]

\* A subtraction that drops the borrow out of the low word.
r128Sub_noBorrow(x, y) ==
    [lo |-> (x.lo - y.lo + Word) % Word, hi |-> (x.hi - y.hi + Word) % Word]

r128Sub(x, y) ==
    LET borrow == IF x.lo < y.lo THEN 1 ELSE 0
    IN  [lo |-> (x.lo - y.lo + Word) % Word, hi |-> (x.hi - y.hi - borrow + 2 * Word) % Word]

r128Neg(src) ==
    LET carry == (Not64(src.lo) + 1) \div Word
    IN  [lo |-> (Not64(src.lo) + 1) % Word, hi |-> (Not64(src.hi) + carry) % Word]

r128IsNeg(v) == ToS64(v.hi) < 0

-----------------------------------------------------------------------------
(* Fixed-point multiply *)

\* x | y on R128_U64
RECURSIVE Or64(_, _)
Or64(x, y) ==
    IF x = 0 THEN y
    ELSE IF y = 0 THEN x
    ELSE (IF x % 2 = 1 \/ y % 2 = 1 THEN 1 ELSE 0) + 2 * Or64(x \div 2, y \div 2)

\* r128__umul without the rounding carry (p0 >> 63).
r128__umul_noRound(x, y) ==
    LET p0 == x.lo * y.lo
        p1 == x.lo * y.hi
        p2 == x.hi * y.lo
        p3 == x.hi * y.hi
        s  == (((p3 * Word) % Word2) + p2 + p1 + (p0 \div Word)) % Word2
    IN  [lo |-> s % Word, hi |-> s \div Word]

\* The unsigned __int128 path: p0..p3 are the four partial products, the sum is
\* taken modulo 2^128.
r128__umul(x, y) ==
    LET p0 == x.lo * y.lo
        p1 == x.lo * y.hi
        p2 == x.hi * y.lo
        p3 == x.hi * y.hi
        s  == (((p3 * Word) % Word2) + p2 + p1 + (p0 \div Word) + ((p0 % Word) \div TopBit)) % Word2
    IN  [lo |-> s % Word, hi |-> s \div Word]

r128Mul(x, y) ==
    LET ta == IF r128IsNeg(x) THEN r128Neg(x) ELSE x
        tb == IF r128IsNeg(y) THEN r128Neg(y) ELSE y
        sign == (r128IsNeg(x) /\ ~r128IsNeg(y)) \/ (~r128IsNeg(x) /\ r128IsNeg(y))
        tc == r128__umul(ta, tb)
    IN  IF sign THEN r128Neg(tc) ELSE tc

-----------------------------------------------------------------------------
(* Fixed-point divide *)

\* Shift d left until the high bit is set, and shift n left by the same amount.
\* overflow is the function's return value; n2 is not written on overflow.
r128__norm(n, d) ==
    LET d1 == d.hi
        d0 == d.lo
        n1 == n.hi
        n0 == n.lo
    IN  IF d1 # 0
        THEN LET shift == r128__clz64(d1)
             IN  IF shift # 0
                 THEN [overflow |-> FALSE,
                       d  |-> MkR128(Shl64(d0, shift),
                                     Or64(Shl64(d1, shift), Shr64(d0, WordBits - shift))),
                       n2 |-> Shr64(n1, WordBits - shift),
                       n  |-> MkR128(Shl64(n0, shift),
                                     Or64(Shl64(n1, shift), Shr64(n0, WordBits - shift)))]
                 ELSE [overflow |-> FALSE, d |-> d, n2 |-> 0, n |-> n]
        ELSE LET shift == r128__clz64(d0)
             IN  IF r128__clz64(n1) >= shift
                 THEN [overflow |-> TRUE, d |-> d, n2 |-> 0, n |-> n]
                 ELSE IF shift # 0
                 THEN [overflow |-> FALSE,
                       d  |-> MkR128(0, Shl64(d0, shift)),
                       n2 |-> Or64(Shl64(n1, shift), Shr64(n0, WordBits - shift)),
                       n  |-> MkR128(0, Shl64(n0, shift))]
                 ELSE [overflow |-> FALSE,
                       d  |-> MkR128(0, d0),
                       n2 |-> n1,
                       n  |-> MkR128(0, n0)]

\* The refine1 / refine0 loops of r128__udiv and r128__umod: q is the trial
\* digit, (t0hi:t0lo) is t0, n1 and d0 are the caller's.  steps counts the
\* decrements of q.
RECURSIVE r128__refine(_, _, _, _, _, _)
r128__refine(q, t0hi, t0lo, n1, d0, steps) ==
    LET t1 == r128__umul128(q, d0)
    IN  IF r128__ucmp(t1, MkR128(t0lo, t0hi)) > 0
        THEN IF t0hi < ToU64(Not64(n1) + 1)
             THEN r128__refine(ToU64(q + Word - 1), ToU64(t0hi + n1), t0lo, n1, d0, steps + 1)
             ELSE [q |-> ToU64(q + Word - 1), steps |-> steps + 1]
        ELSE [q |-> q, steps |-> steps]

\* What an operation that ended in a failed assertion or a divide fault leaves.
Trapped(ndiv) == [trap |-> TRUE, lo |-> 0, hi |-> 0, ndiv |-> ndiv]

Returned(v, ndiv) == [trap |-> FALSE, lo |-> v.lo, hi |-> v.hi, ndiv |-> ndiv]

\* ndiv counts the calls of r128__udiv128.
r128__udiv(dividend, divisor) ==
    LET nm == r128__norm(dividend, divisor)
        d1 == nm.d.hi
        d0 == nm.d.lo
        n3 == nm.n2
        n2 == nm.n.hi
        n1 == nm.n.lo
    IN  IF nm.overflow THEN Returned(R128_max, 0)
        ELSE IF ~(n3 < d1) THEN Trapped(0)
        ELSE LET dv1 == r128__udiv128(n2, n3, d1)
                 qhi == r128__refine(dv1.q, dv1.r, n1, n1, d0, 0).q
                 t1  == r128__umul128(qhi, d0)
                 t2  == r128__umul128(qhi, d1)
                 tmp == r128Sub(MkR128(n1, n2), r128Add(t1, MkR128(0, t2.lo)))
                 m2  == tmp.hi
                 m1  == tmp.lo
             IN  IF ~(m2 < d1) THEN Trapped(1)
                 ELSE LET dv0 == r128__udiv128(m1, m2, d1)
                          qlo == r128__refine(dv0.q, dv0.r, 0, m1, d0, 0).q
                      IN  Returned(MkR128(qlo, qhi), 2)

\* r128__udiv stopped by a failed assertion after k calls of r128__udiv128.
r128__udivStop(k, r1, r0, w) ==
    [trap |-> TRUE, ndiv |-> k, q |-> R128_zero,
     first |-> r1, second |-> r0, wrapped |-> w]

\* r128__udiv once more, keeping what its loops did: trap is a failed
\* assertion, ndiv counts the calls of r128__udiv128, first and second count
\* the decrements of q.hi in refine1 and of q.lo in refine0, wrapped says
\* that a digit was decremented at 0.
r128__udivRun(dividend, divisor) ==
    LET nm == r128__norm(dividend, divisor)
        d1 == nm.d.hi
        d0 == nm.d.lo
        n3 == nm.n2
        n2 == nm.n.hi
        n1 == nm.n.lo
    IN  IF divisor.hi = 0 /\ divisor.lo = 0 THEN r128__udivStop(0, 0, 0, FALSE)
        ELSE IF nm.overflow
        THEN [trap |-> FALSE, ndiv |-> 0, q |-> R128_max,
              first |-> 0, second |-> 0, wrapped |-> FALSE]
        ELSE IF ~(n3 < d1) THEN r128__udivStop(0, 0, 0, FALSE)
        ELSE LET dv1 == r128__udiv128(n2, n3, d1)
                 rf1 == r128__refine(dv1.q, dv1.r, n1, n1, d0, 0)
                 qhi == rf1.q
                 t1  == r128__umul128(qhi, d0)
                 t2  == r128__umul128(qhi, d1)
                 tmp == r128Sub(MkR128(n1, n2), r128Add(t1, MkR128(0, t2.lo)))
                 m2  == tmp.hi
                 m1  == tmp.lo
             IN  IF ~(m2 < d1) THEN r128__udivStop(1, rf1.steps, 0, rf1.steps > dv1.q)
                 ELSE LET dv0 == r128__udiv128(m1, m2, d1)
                          rf0 == r128__refine(dv0.q, dv0.r, 0, m1, d0, 0)
                      IN  [trap |-> FALSE, ndiv |-> 2, q |-> MkR128(rf0.q, qhi),
                           first |-> rf1.steps, second |-> rf0.steps,
                           wrapped |-> rf1.steps > dv1.q \/ rf0.steps > dv0.q]

\* *quotient and the assertions of a run of r128__udiv.
r128__udivResult(run) ==
    IF run.trap THEN Trapped(run.ndiv) ELSE Returned(run.q, run.ndiv)

\* Returns the integer quotient digit in q; first counts the decrements of q
\* in refine1, wrapped says that q was decremented at 0.
r128__umod(n, d) ==
    LET nm == r128__norm(n, d)
        d1 == nm.d.hi
        d0 == nm.d.lo
        n3 == nm.n2
        n2 == nm.n.hi
        n1 == nm.n.lo
    IN  IF d.hi = 0 /\ d.lo = 0
        THEN [trap |-> TRUE, q |-> 0, ndiv |-> 0, first |-> 0, wrapped |-> FALSE]
        ELSE IF nm.overflow
        THEN [trap |-> FALSE, q |-> Word - 1, ndiv |-> 0, first |-> 0, wrapped |-> FALSE]
        ELSE IF ~(n3 < d1)
        THEN [trap |-> TRUE, q |-> 0, ndiv |-> 0, first |-> 0, wrapped |-> FALSE]
        ELSE LET dv1 == r128__udiv128(n2, n3, d1)
                 rf1 == r128__refine(dv1.q, dv1.r, n1, n1, d0, 0)
             IN  [trap |-> FALSE, q |-> rf1.q, ndiv |-> 1,
                  first |-> rf1.steps, wrapped |-> rf1.steps > dv1.q]

\* r128Div with the sign of the dividend ignored on division by zero.
r128Div_zeroUnsigned(x, y) ==
    LET tn == IF r128IsNeg(x) THEN r128Neg(x) ELSE x
        sn == r128IsNeg(x)
    IN  IF y.lo = 0 /\ y.hi = 0
        THEN Returned(R128_max, 0)
        ELSE LET td == IF r128IsNeg(y) THEN r128Neg(y) ELSE y
                 sign == (sn /\ ~r128IsNeg(y)) \/ (~sn /\ r128IsNeg(y))
                 tq == r128__udiv(tn, td)
             IN  IF tq.trap THEN tq
                 ELSE IF sign THEN Returned(r128Neg(tq), tq.ndiv)
                 ELSE tq

r128Div(x, y) ==
    LET tn == IF r128IsNeg(x) THEN r128Neg(x) ELSE x
        sn == r128IsNeg(x)
    IN  IF y.lo = 0 /\ y.hi = 0
        THEN Returned(IF sn THEN R128_min ELSE R128_max, 0)
        ELSE LET td == IF r128IsNeg(y) THEN r128Neg(y) ELSE y
                 sign == (sn /\ ~r128IsNeg(y)) \/ (~sn /\ r128IsNeg(y))
                 tq == r128__udiv(tn, td)
             IN  IF tq.trap THEN tq
                 ELSE IF sign THEN Returned(r128Neg(tq), tq.ndiv)
                 ELSE tq

r128Mod(x, y) ==
    LET tn == IF r128IsNeg(x) THEN r128Neg(x) ELSE x
        sn == r128IsNeg(x)
    IN  IF y.lo = 0 /\ y.hi = 0
        THEN Returned(IF sn THEN R128_min ELSE R128_max, 0)
        ELSE LET td == IF r128IsNeg(y) THEN r128Neg(y) ELSE y
                 sign == (sn /\ ~r128IsNeg(y)) \/ (~sn /\ r128IsNeg(y))
                 um == r128__umod(tn, td)
                 tqhi == IF sign THEN ToU64(Not64(um.q) + 1) ELSE um.q
             IN  IF um.trap THEN Trapped(um.ndiv)
                 ELSE Returned(r128Sub(x, r128Mul(MkR128(0, tqhi), y)), um.ndiv)

-----------------------------------------------------------------------------
(* Shifts.  The source is written for 128 = 2 * 64 bits: "amount &= 127",   *)
(* ">= 64", "64 - amount" and ">> 63" are taken at the model's word width.  *)

\* 128 in the source: the number of bits of an R128.
R128Bits == 2 * WordBits

\* (R128_U64)((R128_S64)x >> s), 0 <= s < WordBits
Sar64(x, s) == ToU64((ToS64(x) + Word * Pow(2, s)) \div Pow(2, s))

\* The branch taken when _M_IX86 is not defined (and __shiftleft128 is not
\* used): r[1] = (r[1] << amount) | (r[0] >> (64 - amount)).
r128Shl(src, amt) ==
    LET m == amt % R128Bits
    IN  IF m >= WordBits
        THEN [lo |-> 0, hi |-> Shl64(src.lo, m - WordBits)]
        ELSE IF m # 0
        THEN [lo |-> Shl64(src.lo, m),
              hi |-> Or64(Shl64(src.hi, m), Shr64(src.lo, WordBits - m))]
        ELSE src

\* A logical shift right that forgets "r[3] = 0" for amounts of 64 and more.
r128Shr_keepHi(src, amt) ==
    LET m == amt % R128Bits
    IN  IF m >= WordBits
        THEN [lo |-> Shr64(src.hi, m - WordBits), hi |-> src.hi]
        ELSE IF m # 0
        THEN [lo |-> Or64(Shr64(src.lo, m), Shl64(src.hi, WordBits - m)),
              hi |-> Shr64(src.hi, m)]
        ELSE src

r128Shr(src, amt) ==
    LET m == amt % R128Bits
    IN  IF m >= WordBits
        THEN [lo |-> Shr64(src.hi, m - WordBits), hi |-> 0]
        ELSE IF m # 0
        THEN [lo |-> Or64(Shr64(src.lo, m), Shl64(src.hi, WordBits - m)),
              hi |-> Shr64(src.hi, m)]
        ELSE src

\* An arithmetic shift right that fills the high word with zeroes.
r128Sar_zeroFill(src, amt) ==
    LET m == amt % R128Bits
    IN  IF m >= WordBits
        THEN [lo |-> Sar64(src.hi, m - WordBits), hi |-> 0]
        ELSE IF m # 0
        THEN [lo |-> Or64(Shr64(src.lo, m), Shl64(src.hi, WordBits - m)),
              hi |-> Shr64(src.hi, m)]
        ELSE src

\* (R128_S64)r[3] << (64 - amount) shifts a signed value left; the compilers
\* of the build define it as the shift of the two's complement word.
r128Sar(src, amt) ==
    LET m == amt % R128Bits
    IN  IF m >= WordBits
        THEN [lo |-> Sar64(src.hi, m - WordBits), hi |-> Sar64(src.hi, WordBits - 1)]
        ELSE IF m # 0
        THEN [lo |-> Or64(Shr64(src.lo, m), Shl64(src.hi, WordBits - m)),
              hi |-> Sar64(src.hi, m)]
        ELSE src

-----------------------------------------------------------------------------
(* Conversion from and to integers *)

\* The values of an R128_S64.
S64 == -TopBit .. TopBit - 1

\* dst->lo = 0; dst->hi = (R128_U64)v
r128FromInt(v) == [lo |-> 0, hi |-> ToU64(v + Word)]

\* An r128ToInt without the cast to R128_S64.
r128ToInt_unsigned(v) == v.hi

\* return (R128_S64)v->hi
r128ToInt(v) == ToS64(v.hi)

-----------------------------------------------------------------------------
(* Comparison, floor, ceil *)

\* A comparison that takes the high words as unsigned.
r128Cmp_unsigned(x, y) ==
    IF x.hi = y.hi
    THEN (IF x.lo = y.lo THEN 0 ELSE IF x.lo > y.lo THEN 1 ELSE -1)
    ELSE IF x.hi > y.hi THEN 1 ELSE -1

r128Cmp(x, y) ==
    IF x.hi = y.hi
    THEN (IF x.lo = y.lo THEN 0 ELSE IF x.lo > y.lo THEN 1 ELSE -1)
    ELSE IF ToS64(x.hi) > ToS64(y.hi) THEN 1 ELSE -1

r128Min(x, y) == IF r128Cmp(x, y) < 0 THEN x ELSE y

r128Max(x, y) == IF r128Cmp(x, y) > 0 THEN x ELSE y

r128Floor(v) ==
    IF ToS64(v.hi) < 0
    THEN [lo |-> 0, hi |-> ToU64(v.hi + Word - (IF v.lo # 0 THEN 1 ELSE 0))]
    ELSE [lo |-> 0, hi |-> v.hi]

r128Ceil(v) ==
    IF ToS64(v.hi) > 0
    THEN [lo |-> 0, hi |-> ToU64(v.hi + (IF v.lo # 0 THEN 1 ELSE 0))]
    ELSE [lo |-> 0, hi |-> v.hi]

-----------------------------------------------------------------------------
(* Characters: a char is its ASCII code, a string is the sequence of its chars *)
(* before the terminating NUL.                                              *)

CH_NUL == 0
CH_TAB == 9
CH_LF == 10
CH_VT == 11
CH_CR == 13
CH_SPACE == 32
CH_HASH == 35
CH_PERCENT == 37
CH_PLUS == 43
CH_MINUS == 45
CH_0 == 48
CH_9 == 57
CH_A == 65
CH_F == 70
CH_X == 88
CH_a == 97
CH_f == 102
CH_x == 120

\* char R128_decimal = '.'
R128_decimal == 46

\* endptr before it is written.
NoEnd == -1

\* s[i] for a C string s (i counts from 0); the NUL ends it.
CharAt(s, i) == IF i >= 0 /\ i < Len(s) THEN s[i + 1] ELSE CH_NUL

-----------------------------------------------------------------------------
(* Formatter *)

\* char buf[128]
BufSize == 128

RECURSIVE DigitCount(_)
DigitCount(n) == IF n < 10 THEN 1 ELSE 1 + DigitCount(n \div 10)

\* A digit limit that reserves no room for the whole part in buf.
DecimalDigits_noRoom == DigitCount(Word) - 2

\* 20 in the source: the number of decimal digits of 2^64.
DecimalDigits == DigitCount(Word)

R128__defaultFormat ==
    [sign |-> "Default", width |-> 0, precision |-> -1,
     zeroPad |-> FALSE, decimal |-> FALSE, leftAlign |-> FALSE]

\* The carry loop "for (c = cursor - 1; c >= buf; --c)": c is the index of the
\* digit to increment (from 1), 0 when the carry leaves the fractional part.
RECURSIVE r128__roundUp(_, _, _)
r128__roundUp(buf, c, whole) ==
    IF c = 0
    THEN [buf |-> buf, whole |-> ToU64(whole + 1)]
    ELSE IF buf[c] + 1 <= CH_9
    THEN [buf |-> [buf EXCEPT ![c] = buf[c] + 1], whole |-> whole]
    ELSE r128__roundUp([buf EXCEPT ![c] = CH_0], c - 1, whole)

\* The loop "while (tmp.lo || (fullPrecision && precision))": buf holds the
\* digits written so far.
RECURSIVE r128__fracDigits(_, _, _, _, _)
r128__fracDigits(lo, buf, whole, fullPrecision, precision) ==
    IF lo = 0 /\ fullPrecision /\ precision # 0
    THEN \* tmp.lo stays 0: every further pass writes '0', up to precision
         [buf |-> buf \o [i \in 1 .. precision - Len(buf) |-> CH_0], whole |-> whole]
    ELSE IF lo # 0 \/ (fullPrecision /\ precision # 0)
    THEN IF Len(buf) = precision
         THEN IF ToS64(lo) < 0
              THEN r128__roundUp(buf, Len(buf), whole)
              ELSE [buf |-> buf, whole |-> whole]
         ELSE r128__fracDigits(r128__umul128(lo, 10).lo,
                               Append(buf, r128__umul128(lo, 10).hi + CH_0),
                               whole, fullPrecision, precision)
    ELSE [buf |-> buf, whole |-> whole]

\* The loop "do { ... } while (whole)": the digits of whole, lowest first.
RECURSIVE r128__wholeDigits(_)
r128__wholeDigits(whole) ==
    IF whole \div 10 = 0
    THEN <<(whole % 10) + CH_0>>
    ELSE <<(whole % 10) + CH_0>> \o r128__wholeDigits(whole \div 10)

\* n copies of c, none when n <= 0.
Repeat(c, n) == [i \in 1 .. n |-> c]

RECURSIVE Reverse(_)
Reverse(q) == IF q = <<>> THEN <<>> ELSE Append(Reverse(Tail(q)), Head(q))

\* The sign character written for the value, <<>> when there is none (the
\* branch that does ++padCnt).
r128__signChar(sign, format) ==
    IF sign THEN <<CH_MINUS>>
    ELSE IF format.sign = "Plus" THEN <<CH_PLUS>>
    ELSE IF format.sign = "Space" THEN <<CH_SPACE>>
    ELSE <<>>

\* Returns the characters stored in dst before the NUL (text), the index of
\* the NUL, which is the return value (ret), and the number of chars of buf
\* that were written (scratch).
r128__format(size, v, format) ==
    LET sign == r128IsNeg(v)
        tmp == IF sign THEN r128Neg(v) ELSE v
        width == IF format.width < 0 THEN 0 ELSE format.width
        fullPrecision == ~(format.precision < 0)
        trail == IF format.precision >= 0 /\ format.precision > BufSize - (DecimalDigits + 1)
                 THEN format.precision - (BufSize - (DecimalDigits + 1))
                 ELSE 0
        precision == IF format.precision < 0 THEN DecimalDigits ELSE format.precision - trail
        hasFrac == tmp.lo # 0 \/ format.decimal
        fr == IF hasFrac
              THEN r128__fracDigits(tmp.lo, <<>>, tmp.hi, fullPrecision, precision)
              ELSE [buf |-> <<>>, whole |-> tmp.hi]
        point == IF hasFrac /\ (format.decimal \/ precision # 0) THEN <<R128_decimal>> ELSE <<>>
        \* buf[decimal .. cursor - 1], lowest digit first
        wholeBuf == point \o r128__wholeDigits(fr.whole)
        cursor == Len(fr.buf) + Len(wholeBuf)
        padCnt0 == width - cursor - 1
        signCh == r128__signChar(sign, format)
        noSign == IF signCh = <<>> THEN 1 ELSE 0
        leftPad == IF ~format.leftAlign
                   THEN IF format.zeroPad
                        THEN signCh \o Repeat(CH_0, padCnt0 + noSign)
                        ELSE Repeat(CH_SPACE, padCnt0)
                   ELSE <<>>
        lateSign == IF format.leftAlign \/ ~format.zeroPad THEN signCh ELSE <<>>
        rightPad == IF format.leftAlign
                    THEN Repeat(IF format.zeroPad THEN CH_0 ELSE CH_SPACE, padCnt0 + noSign)
                    ELSE <<>>
        all == leftPad \o lateSign \o Reverse(wholeBuf) \o fr.buf \o rightPad \o Repeat(CH_0, trail)
        \* R128__WRITE: the first write that finds dstSize = 1 goes to finish.
        written == IF Len(all) <= size - 1 THEN all ELSE SubSeq(all, 1, size - 1)
    IN  [text |-> written, ret |-> Len(written), scratch |-> cursor]

r128ToStringOpt(size, v, opt) == r128__format(size, v, opt)

\* "flags field": the loop over ' ', '+', '0', '-', '#'; i is the offset of
\* the char looked at.
RECURSIVE r128__flags(_, _, _)
r128__flags(format, i, opts) ==
    LET ch == CharAt(format, i)
    IN  IF ch = CH_SPACE /\ opts.sign # "Plus"
        THEN r128__flags(format, i + 1, [opts EXCEPT !.sign = "Space"])
        ELSE IF ch = CH_PLUS
        THEN r128__flags(format, i + 1, [opts EXCEPT !.sign = "Plus"])
        ELSE IF ch = CH_0
        THEN r128__flags(format, i + 1, [opts EXCEPT !.zeroPad = TRUE])
        ELSE IF ch = CH_MINUS
        THEN r128__flags(format, i + 1, [opts EXCEPT !.leftAlign = TRUE])
        ELSE IF ch = CH_HASH
        THEN r128__flags(format, i + 1, [opts EXCEPT !.decimal = TRUE])
        ELSE [i |-> i, opts |-> opts]

\* "opts.width = opts.width * 10 + *format++ - '0'" (and the same loop for
\* the precision), from the value acc.
RECURSIVE r128__number(_, _, _)
r128__number(format, i, acc) ==
    IF CH_0 <= CharAt(format, i) /\ CharAt(format, i) <= CH_9
    THEN r128__number(format, i + 1, acc * 10 + CharAt(format, i) - CH_0)
    ELSE [i |-> i, value |-> acc]

\* The options r128ToStringf reads from the format string.
r128__opts(format) ==
    LET i0 == IF CharAt(format, 0) = CH_PERCENT THEN 1 ELSE 0
        fl == r128__flags(format, i0, R128__defaultFormat)
        wd == r128__number(format, fl.i, 0)
        pr == IF CharAt(format, wd.i) = R128_decimal
              THEN r128__number(format, wd.i + 1, 0).value
              ELSE R128__defaultFormat.precision
    IN  [fl.opts EXCEPT !.width = wd.value, !.precision = pr]

r128ToStringf(size, format, v) == r128__format(size, v, r128__opts(format))

r128ToString(size, v) == r128__format(size, v, R128__defaultFormat)

-----------------------------------------------------------------------------
(* Parser *)

IsSpace(c) == c \in {CH_SPACE, CH_TAB, CH_CR, CH_LF, CH_VT}

\* The digit tests of the whole-part loop and of the scan of the fraction.
IsDigitIn(c, base) ==
    \/ (CH_0 <= c /\ c <= CH_9)
    \/ (base = 16 /\ CH_a <= c /\ c <= CH_f)
    \/ (base = 16 /\ CH_A <= c /\ c <= CH_F)

\* A digit value that takes the letters a-f and A-F for 0..5.
DigitValue_noTen(c) ==
    IF CH_0 <= c /\ c <= CH_9 THEN c - CH_0
    ELSE IF CH_a <= c /\ c <= CH_f THEN c - CH_a
    ELSE c - CH_A

\* The digit value of a char that passed the digit test (both loops compute
\* it the same way).
DigitValue(c) ==
    IF CH_0 <= c /\ c <= CH_9 THEN c - CH_0
    ELSE IF CH_a <= c /\ c <= CH_f THEN c - CH_a + 10
    ELSE c - CH_A + 10

RECURSIVE r128__skipSpace(_, _)
r128__skipSpace(s, i) == IF IsSpace(CharAt(s, i)) THEN r128__skipSpace(s, i + 1) ELSE i

\* "for (;; ++s) { ... hi = hi * base + digit; }"
RECURSIVE r128__wholePart(_, _, _, _)
r128__wholePart(s, i, base, hi) ==
    IF IsDigitIn(CharAt(s, i), base)
    THEN r128__wholePart(s, i + 1, base, ToU64(hi * base + DigitValue(CharAt(s, i))))
    ELSE [i |-> i, hi |-> hi]

\* "find the last digit": the index of the first char after the digit run.
RECURSIVE r128__scanFrac(_, _, _)
r128__scanFrac(s, i, base) ==
    IF IsDigitIn(CharAt(s, i), base) THEN r128__scanFrac(s, i + 1, base) ELSE i

\* "for (--s; s >= exp; --s) lo = r128__udiv128(lo, digit, base, &unused)",
\* entered with i already decremented.  i is where s is left.
RECURSIVE r128__fracBack(_, _, _, _, _)
r128__fracBack(s, i, exp, base, lo) ==
    IF i >= exp
    THEN LET dv == r128__udiv128(lo, DigitValue(CharAt(s, i)), base)
         IN  IF dv.trap THEN [trap |-> TRUE, i |-> i, lo |-> 0]
             ELSE r128__fracBack(s, i - 1, exp, base, dv.q)
    ELSE [trap |-> FALSE, i |-> i, lo |-> lo]

\* value is what is stored in dst, endptr the offset from the start of the
\* string that is stored in *endptr.
r128FromString(s) ==
    LET i0 == r128__skipSpace(s, 0)
        sign == CharAt(s, i0) = CH_MINUS
        i1 == IF CharAt(s, i0) = CH_MINUS \/ CharAt(s, i0) = CH_PLUS THEN i0 + 1 ELSE i0
        hex == CharAt(s, i1) = CH_0 /\ (CharAt(s, i1 + 1) = CH_x \/ CharAt(s, i1 + 1) = CH_X)
        base == IF hex THEN 16 ELSE 10
        i2 == IF hex THEN i1 + 2 ELSE i1
        wp == r128__wholePart(s, i2, base, 0)
        fp == IF CharAt(s, wp.i) = R128_decimal
              THEN r128__fracBack(s, r128__scanFrac(s, wp.i + 1, base) - 1, wp.i + 1, base, 0)
              ELSE [trap |-> FALSE, i |-> wp.i, lo |-> 0]
        v == MkR128(fp.lo, wp.hi)
    IN  IF fp.trap
        THEN [value |-> Trapped(0), endptr |-> NoEnd]
        ELSE [value |-> Returned(IF sign THEN r128Neg(v) ELSE v, 0), endptr |-> fp.i]

-----------------------------------------------------------------------------
(* The arithmetic operations, applied to every pair of operands *)

NoResult == [trap |-> FALSE, lo |-> 0, hi |-> 0, ndiv |-> 0]

\* No refinement loop has run.
NoRefine == [first |-> 0, second |-> 0, wrapped |-> FALSE]

Value(r) == MkR128(r.lo, r.hi)

Init ==
    /\ pc = "start"
    /\ a \in R128
    /\ b \in R128
    /\ res = NoResult
    /\ text = <<>>
    /\ endptr = NoEnd
    /\ fmt = R128__defaultFormat
    /\ dstSize = BufSize
    /\ ret = 0
    /\ scratch = 0
    /\ num = 0
    /\ amount = 0
    /\ refine = NoRefine
    /\ ua = 0
    /\ ub = 0

Div ==
    /\ pc = "start"
    /\ pc' = "div"
    /\ res' = r128Div(a, b)
    /\ UNCHANGED <<a, b, text, endptr, fmt, dstSize, ret, scratch, num, amount,
                 refine, ua, ub>>

Mod ==
    /\ pc = "start"
    /\ pc' = "mod"
    /\ res' = r128Mod(a, b)
    /\ UNCHANGED <<a, b, text, endptr, fmt, dstSize, ret, scratch, num, amount,
                 refine, ua, ub>>

Mul ==
    /\ pc = "start"
    /\ pc' = "mul"
    /\ res' = Returned(r128Mul(a, b), 0)
    /\ UNCHANGED <<a, b, text, endptr, fmt, dstSize, ret, scratch, num, amount,
                 refine, ua, ub>>

\* r128Mul(r128Div(a, b), b): the quotient multiplied back.
MulBack ==
    /\ pc = "div"
    /\ ~res.trap
    /\ pc' = "divmul"
    /\ res' = Returned(r128Mul(Value(res), b), res.ndiv)
    /\ UNCHANGED <<a, b, text, endptr, fmt, dstSize, ret, scratch, num, amount,
                 refine, ua, ub>>

\* Division and modulo of every pair.
Next == Div \/ Mod

Spec == Init /\ [][Next]_vars

\* Multiplication of every pair.
NextMul == Mul

SpecMul == Init /\ [][NextMul]_vars

\* Division of every pair, and the quotient multiplied by the divisor.
NextDivMul == Div \/ MulBack

SpecDivMul == Init /\ [][NextDivMul]_vars

-----------------------------------------------------------------------------
(* Reference values the claims are stated with *)

\* x < 0 as a two's-complement 128-bit integer.
Negative(x) == Raw(x) >= Word2 \div 2

\* |x|: the raw two's-complement magnitude of x (|MIN| = 2^127).
Mag(x) == IF Negative(x) THEN Word2 - Raw(x) ELSE Raw(x)

\* The 128-bit pattern of the magnitude n, negated iff neg.
WithSign(n, neg) == FromRaw(IF neg THEN (Word2 - (n % Word2)) % Word2 ELSE n % Word2)

DiffSign(x, y) == Negative(x) # Negative(y)

\* floor(|x| * 2^64 / |y|)
QuotMag(x, y) == (Mag(x) * Word) \div Mag(y)

\* C2: for b # 0 with floor(|a| * 2^64 / |b|) < 2^127, r128Div returns exactly
\* that magnitude, negated iff exactly one of a, b is negative.
C2_DivResult ==
    (pc = "div" /\ Raw(b) # 0 /\ QuotMag(a, b) < Word2 \div 2)
        => (~res.trap /\ Value(res) = WithSign(QuotMag(a, b), DiffSign(a, b)))

\* C3: r128Mul returns floor(|a|*|b| / 2^64) + (bit 63 of |a|*|b|), modulo 2^128,
\* negated iff exactly one operand is negative; and mul(v, ONE) = v.
C3_MulResult ==
    pc = "mul" =>
        /\ Value(res) = WithSign((Mag(a) * Mag(b)) \div Word
                                    + (((Mag(a) * Mag(b)) \div TopBit) % 2),
                                 DiffSign(a, b))
        /\ (b = R128_one => Value(res) = a)

C3_Witness ==
    /\ pc = "mul"
    /\ Negative(a) /\ ~Negative(b)
    /\ ((Mag(a) * Mag(b)) \div TopBit) % 2 = 1
    /\ (Mag(a) * Mag(b)) \div Word >= Word2

\* C4: r128Div(a, ZERO) and r128Mod(a, ZERO) return MAX for non-negative a and
\* MIN for negative a, without a failed assertion and without a call of the
\* divide primitive.
C4_DivByZero ==
    (pc \in {"div", "mod"} /\ b = R128_zero) =>
        /\ ~res.trap
        /\ res.ndiv = 0
        /\ Value(res) = IF Negative(a) THEN R128_min ELSE R128_max

C4_Witness ==
    /\ pc = "mod"
    /\ b = R128_zero
    /\ a = R128_min
    /\ Value(res) = R128_min

\* The signed 128-bit integer a value stands for (its value times 2^64).
SignedRaw(x) == IF Negative(x) THEN Raw(x) - Word2 ELSE Raw(x)

Abs(n) == IF n < 0 THEN -n ELSE n

\* C5: for b # 0 with floor(|a| * 2^64 / |b|) >= 2^127, r128Div returns MAX when
\* a and b have the same sign and MIN when their signs differ; and it returns
\* MAX or MIN for an in-range quotient only when that is the quotient.
C5_DivOverflow ==
    (pc = "div" /\ Raw(b) # 0) =>
        /\ QuotMag(a, b) >= Word2 \div 2 =>
              (~res.trap /\ Value(res) = IF DiffSign(a, b) THEN R128_min ELSE R128_max)
        /\ (QuotMag(a, b) < Word2 \div 2 /\ ~res.trap /\ Value(res) \in {R128_min, R128_max}) =>
              Value(res) = WithSign(QuotMag(a, b), DiffSign(a, b))

\* C6: for b # 0 whose integer quotient trunc(a / b) fits in 64 bits,
\* r128Mod(a, b) = a - trunc(a / b) * b, which is the remainder |a| mod |b|
\* with the sign of a.
C6_ModIdentity ==
    (pc = "mod" /\ Raw(b) # 0 /\ Mag(a) \div Mag(b) < Word) =>
        /\ ~res.trap
        /\ Value(res) = WithSign(Mag(a) % Mag(b), Negative(a))
        /\ Value(res) = r128Sub(a, r128Mul(WithSign((Mag(a) \div Mag(b)) * Word, DiffSign(a, b)), b))

\* C7: for b # 0 whose quotient does not overflow,
\* |r128Mul(r128Div(a, b), b) - a| <= |b| * 2^-63 (raw units: the difference
\* times 2^63 is at most |b|).
C7_DivInverse ==
    (Raw(b) # 0 /\ QuotMag(a, b) < Word2 \div 2) =>
        /\ pc = "div" => ~res.trap
        /\ pc = "divmul" => Abs(SignedRaw(Value(res)) - SignedRaw(a)) * TopBit <= Mag(b)

-----------------------------------------------------------------------------
(* Floor and ceil, applied to every value *)

InitUnary ==
    /\ pc = "start"
    /\ a \in R128
    /\ b = R128_zero
    /\ res = NoResult
    /\ text = <<>>
    /\ endptr = NoEnd
    /\ fmt = R128__defaultFormat
    /\ dstSize = BufSize
    /\ ret = 0
    /\ scratch = 0
    /\ num = 0
    /\ amount = 0
    /\ refine = NoRefine
    /\ ua = 0
    /\ ub = 0

Floor ==
    /\ pc = "start"
    /\ pc' = "floor"
    /\ res' = Returned(r128Floor(a), 0)
    /\ UNCHANGED <<a, b, text, endptr, fmt, dstSize, ret, scratch, num, amount,
                 refine, ua, ub>>

Ceil ==
    /\ pc = "start"
    /\ pc' = "ceil"
    /\ res' = Returned(r128Ceil(a), 0)
    /\ UNCHANGED <<a, b, text, endptr, fmt, dstSize, ret, scratch, num, amount,
                 refine, ua, ub>>

NextUnary == Floor \/ Ceil

SpecUnary == InitUnary /\ [][NextUnary]_vars

\* C8: r128Floor(v) has lo = 0 and is the greatest integer-valued number <= v:
\* floor(v) <= v < floor(v) + 1, and floor(v) = v when v.lo = 0.
C8_FloorRounding ==
    pc = "floor" =>
        /\ res.lo = 0
        /\ SignedRaw(Value(res)) <= SignedRaw(a)
        /\ SignedRaw(a) - SignedRaw(Value(res)) < Word
        /\ (a.lo = 0 => Value(res) = a)

\* C9: for v whose ceiling is representable, r128Ceil(v) has lo = 0 and is the
\* least integer-valued number >= v: ceil(v) - 1 < v <= ceil(v); so every v with
\* nonzero lo, positive or negative, maps to hi + 1.
C9_CeilRounding ==
    (pc = "ceil" /\ ~(a.hi = TopBit - 1 /\ a.lo # 0)) =>
        /\ res.lo = 0
        /\ SignedRaw(Value(res)) >= SignedRaw(a)
        /\ SignedRaw(Value(res)) - SignedRaw(a) < Word
        /\ (a.lo # 0 => res.hi = ToU64(a.hi + 1))

-----------------------------------------------------------------------------
(* Formatting a value with the default format, then parsing the text *)

\* The largest dstSize tried.
MaxDstSize == 8

InitString ==
    /\ pc = "start"
    /\ a \in R128
    /\ b = R128_zero
    /\ res = NoResult
    /\ text = <<>>
    /\ endptr = NoEnd
    /\ fmt = R128__defaultFormat
    /\ dstSize \in 1 .. MaxDstSize
    /\ ret = 0
    /\ scratch = 0
    /\ num = 0
    /\ amount = 0
    /\ refine = NoRefine
    /\ ua = 0
    /\ ub = 0

ToString ==
    /\ pc = "start"
    /\ pc' = "formatted"
    /\ text' = r128ToString(dstSize, a).text
    /\ ret' = r128ToString(dstSize, a).ret
    /\ scratch' = r128ToString(dstSize, a).scratch
    /\ UNCHANGED <<a, b, res, endptr, fmt, dstSize, num, amount,
                 refine, ua, ub>>

FromString ==
    /\ pc = "formatted"
    /\ pc' = "parsed"
    /\ res' = r128FromString(text).value
    /\ endptr' = r128FromString(text).endptr
    /\ UNCHANGED <<a, b, text, fmt, dstSize, ret, scratch, num, amount,
                 refine, ua, ub>>

NextString == ToString \/ FromString

SpecString == InitString /\ [][NextString]_vars

\* C1: for every v, formatting v with the default format into a large enough
\* buffer (43 bytes in the source: sign, 20 digits, separator, 20 digits, NUL)
\* and parsing the text gives exactly v.
C1_DecimalRoundTrip ==
    (pc = "parsed" /\ dstSize >= 2 * DecimalDigits + 3) =>
        (~res.trap /\ Value(res) = a)

-----------------------------------------------------------------------------
(* Parsing every string over a small alphabet *)

\* The longest input string.
MaxLen == 5

\* ' ', '-', '+', '0', '5', 'x', 'A', 'c', '.', 'g'
Alphabet == {CH_SPACE, CH_MINUS, CH_PLUS, CH_0, CH_0 + 5, CH_x, CH_A, CH_a + 2,
             R128_decimal, CH_f + 1}

Strings == UNION {[1 .. n -> Alphabet] : n \in 0 .. MaxLen}

InitParse ==
    /\ pc = "start"
    /\ a = R128_zero
    /\ b = R128_zero
    /\ res = NoResult
    /\ text \in Strings
    /\ endptr = NoEnd
    /\ fmt = R128__defaultFormat
    /\ dstSize = BufSize
    /\ ret = 0
    /\ scratch = 0
    /\ num = 0
    /\ amount = 0
    /\ refine = NoRefine
    /\ ua = 0
    /\ ub = 0

Parse ==
    /\ pc = "start"
    /\ pc' = "parsed"
    /\ res' = r128FromString(text).value
    /\ endptr' = r128FromString(text).endptr
    /\ UNCHANGED <<a, b, text, fmt, dstSize, ret, scratch, num, amount,
                 refine, ua, ub>>

NextParse == Parse

SpecParse == InitParse /\ [][NextParse]_vars

\* The offset of the first char the conversion did not use: past the white
\* space, the sign, the base prefix and the whole digits, and past the
\* separator and the fractional digits when fractional digits follow the
\* separator.
ConsumedEnd(s) ==
    LET i0 == r128__skipSpace(s, 0)
        i1 == IF CharAt(s, i0) \in {CH_MINUS, CH_PLUS} THEN i0 + 1 ELSE i0
        hex == CharAt(s, i1) = CH_0 /\ CharAt(s, i1 + 1) \in {CH_x, CH_X}
        base == IF hex THEN 16 ELSE 10
        w == r128__scanFrac(s, IF hex THEN i1 + 2 ELSE i1, base)
        f == r128__scanFrac(s, w + 1, base)
    IN  IF CharAt(s, w) = R128_decimal /\ f > w + 1 THEN f ELSE w

\* C10: r128FromString stores in *endptr the address of the first char not
\* consumed by the conversion.
C10_EndPointer ==
    pc = "parsed" => endptr = ConsumedEnd(text)

-----------------------------------------------------------------------------
(* The value of a well-formed numeral *)

\* The digit a char stands for in the base, -1 when it is not a digit of it.
NumeralDigit(c, base) ==
    IF CH_0 <= c /\ c <= CH_9 THEN c - CH_0
    ELSE IF base = 16 /\ CH_a <= c /\ c <= CH_f THEN 10 + (c - CH_a)
    ELSE IF base = 16 /\ CH_A <= c /\ c <= CH_F THEN 10 + (c - CH_A)
    ELSE -1

\* The offset of the first char at or after i that is not white space.
RECURSIVE AfterSpace(_, _)
AfterSpace(s, i) ==
    IF CharAt(s, i) \in {CH_SPACE, CH_TAB, CH_CR, CH_LF, CH_VT} THEN AfterSpace(s, i + 1) ELSE i

\* The offset of the first char at or after i that is not a digit of the base.
RECURSIVE AfterDigits(_, _, _)
AfterDigits(s, i, base) ==
    IF NumeralDigit(CharAt(s, i), base) >= 0 THEN AfterDigits(s, i + 1, base) ELSE i

\* The integer written by the digits s[i .. j-1].
RECURSIVE NumeralValue(_, _, _, _)
NumeralValue(s, i, j, base) ==
    IF j <= i THEN 0
    ELSE NumeralValue(s, i, j - 1, base) * base + NumeralDigit(CharAt(s, j - 1), base)

\* The parts of the numeral at the start of s: white space, sign, base
\* prefix, whole digits [w0, w1), and fractional digits [f0, f1) when the
\* separator follows the whole digits.
Numeral(s) ==
    LET i0 == AfterSpace(s, 0)
        signed == CharAt(s, i0) \in {CH_MINUS, CH_PLUS}
        i1 == IF signed THEN i0 + 1 ELSE i0
        hex == CharAt(s, i1) = CH_0 /\ CharAt(s, i1 + 1) \in {CH_x, CH_X}
        base == IF hex THEN 16 ELSE 10
        w0 == IF hex THEN i1 + 2 ELSE i1
        w1 == AfterDigits(s, w0, base)
        point == CharAt(s, w1) = R128_decimal
        f0 == IF point THEN w1 + 1 ELSE w1
        f1 == IF point THEN AfterDigits(s, f0, base) ELSE w1
    IN  [neg |-> CharAt(s, i0) = CH_MINUS, base |-> base,
         w0 |-> w0, w1 |-> w1, f0 |-> f0, f1 |-> f1]

\* The whole string is one numeral.
WellFormed(s) == Numeral(s).f1 = Len(s)

\* hi = W mod 2^64, lo = floor(0.d1..dk * 2^64), negated as a 128-bit two's
\* complement number under '-'.
NumeralR128(s) ==
    LET n == Numeral(s)
        hi == NumeralValue(s, n.w0, n.w1, n.base) % Word
        lo == (NumeralValue(s, n.f0, n.f1, n.base) * Word) \div Pow(n.base, n.f1 - n.f0)
        raw == hi * Word + lo
    IN  FromRaw(IF n.neg THEN (Word2 - raw) % Word2 ELSE raw)

\* C11: for an input of optional white space, optional sign, optional 0x/0X
\* prefix, whole digits W and optionally the separator followed by fractional
\* digits, r128FromString returns hi = W mod 2^64 and
\* lo = floor(0.d1..dk * 2^64), the pair negated when the sign is '-', and no
\* call of the divide primitive inside the parser faults (digit < base).
C11_ParserValue ==
    (pc = "parsed" /\ WellFormed(text)) =>
        (~res.trap /\ Value(res) = NumeralR128(text))

\* "-5.5" has been parsed: hi = -6, lo = one half.
C11_Witness ==
    /\ pc = "parsed"
    /\ text = <<CH_MINUS, CH_0 + 5, R128_decimal, CH_0 + 5>>
    /\ ~res.trap
    /\ res.hi = Word - 6
    /\ res.lo = TopBit

-----------------------------------------------------------------------------
(* Formatting every value under every format record *)

\* The largest width and the largest precision of the format records tried.
MaxWidth == 4
MaxPrecision == 3

Formats ==
    [sign : {"Default", "Space", "Plus"}, width : -1 .. MaxWidth,
     precision : -1 .. MaxPrecision, zeroPad : BOOLEAN, decimal : BOOLEAN,
     leftAlign : BOOLEAN]

\* A destination that holds any output of the formats tried.
LargeDst == 2 * BufSize

InitFormat ==
    /\ pc = "start"
    /\ a \in R128
    /\ b = R128_zero
    /\ res = NoResult
    /\ text = <<>>
    /\ endptr = NoEnd
    /\ fmt = R128__defaultFormat
    /\ dstSize = LargeDst
    /\ ret = 0
    /\ scratch = 0
    /\ num = 0
    /\ amount = 0
    /\ refine = NoRefine
    /\ ua = 0
    /\ ub = 0

ToStringOpt ==
    /\ pc = "start"
    /\ pc' = "formatted"
    /\ \E opt \in Formats :
          LET out == r128ToStringOpt(dstSize, a, opt)
          IN  /\ fmt' = opt
              /\ text' = out.text
              /\ ret' = out.ret
              /\ scratch' = out.scratch
    /\ UNCHANGED <<a, b, res, endptr, dstSize, num, amount,
                 refine, ua, ub>>

NextFormat == ToStringOpt

SpecFormat == InitFormat /\ [][NextFormat]_vars

-----------------------------------------------------------------------------
(* Formatting into small destinations through the three entry points *)

\* The values tried: every whole word, with a fractional word that gives no
\* fractional digit, the most fractional digits, one digit, or a carry.
EdgeValues == {v \in R128 : v.lo \in {0, 1, TopBit, Word - 1}}

\* The decimal digits of n > 0, the empty string for 0.
RECURSIVE Digits(_)
Digits(n) == IF n = 0 THEN <<>> ELSE Append(Digits(n \div 10), CH_0 + (n % 10))

\* "%<flags><width>.<precision>f"; a precision of -1 leaves the precision
\* field out.
FormatString(flags, width, precision) ==
    <<CH_PERCENT>> \o flags \o Digits(width)
        \o (IF precision < 0 THEN <<>> ELSE <<R128_decimal>> \o Digits(precision))
        \o <<CH_f>>

\* The precisions of the format strings: small ones, and those around the
\* limit above which digits become trailing zeroes (107 in the source).
StringPrecisions ==
    {-1, 0, MaxPrecision, BufSize - DecimalDigits - 2, BufSize - DecimalDigits - 1,
     BufSize - DecimalDigits, BufSize + 1}

FormatStrings ==
    {FormatString(flags, width, precision) :
        flags \in {<<>>, <<CH_MINUS>>, <<CH_0>>, <<CH_SPACE>>, <<CH_PLUS, CH_HASH>>},
        width \in {0, MaxWidth},
        precision \in StringPrecisions}

InitBuffer ==
    /\ pc = "start"
    /\ a \in EdgeValues
    /\ b = R128_zero
    /\ res = NoResult
    /\ text = <<>>
    /\ endptr = NoEnd
    /\ fmt = R128__defaultFormat
    /\ dstSize \in 1 .. MaxDstSize
    /\ ret = 0
    /\ scratch = 0
    /\ num = 0
    /\ amount = 0
    /\ refine = NoRefine
    /\ ua = 0
    /\ ub = 0

ToStringf ==
    /\ pc = "start"
    /\ pc' = "formatted"
    /\ \E format \in FormatStrings :
          LET out == r128ToStringf(dstSize, format, a)
          IN  /\ fmt' = r128__opts(format)
              /\ text' = out.text
              /\ ret' = out.ret
              /\ scratch' = out.scratch
    /\ UNCHANGED <<a, b, res, endptr, dstSize, num, amount,
                 refine, ua, ub>>

NextBuffer == ToStringOpt \/ ToStringf \/ ToString

SpecBuffer == InitBuffer /\ [][NextBuffer]_vars

\* C12: for every value, every format and every dstSize >= 1, the formatter
\* writes only dst[0 .. dstSize-1] and only inside the 128-byte scratch
\* buffer, leaves the NUL at dst[return value], and returns the number of
\* chars written before the NUL, so the return value is at most dstSize - 1.
C12_BufferSafety ==
    pc = "formatted" =>
        /\ scratch <= BufSize
        /\ ret = Len(text)
        /\ ret <= dstSize - 1
        /\ \A i \in 1 .. Len(text) : text[i] # CH_NUL

\* A precision above the limit has filled the scratch buffer as far as it
\* can be (the most fractional digits, the separator, and the most whole
\* digits), and the output was cut to the destination.
C12_Witness ==
    /\ pc = "formatted"
    /\ fmt.precision > BufSize - DecimalDigits - 1
    /\ scratch = BufSize - DecimalDigits + DigitCount(TopBit)
    /\ ret = dstSize - 1
    /\ dstSize > 1

-----------------------------------------------------------------------------
(* Width, precision and padding of the formatted text *)

\* The text of the value under the format of the state with no field width:
\* sign, digits and separator only.
Unpadded == r128ToStringOpt(dstSize, a, [fmt EXCEPT !.width = 0]).text

\* C13: with a large enough destination, the output under a format of width
\* w >= 0 has at least w chars, and exactly w chars when the unpadded text
\* (sign, digits, separator) is shorter than w, for every sign mode, zero_pad
\* and left_align.
C13_MinimumWidth ==
    (pc = "formatted" /\ dstSize = LargeDst /\ fmt.width >= 0) =>
        /\ Len(text) >= fmt.width
        /\ (Len(Unpadded) < fmt.width => Len(text) = fmt.width)

\* The offset of the first separator of s (from 1), 0 when there is none.
SeparatorAt(s) ==
    IF \E i \in 1 .. Len(s) : s[i] = R128_decimal
    THEN CHOOSE i \in 1 .. Len(s) :
            s[i] = R128_decimal /\ \A j \in 1 .. i - 1 : s[j] # R128_decimal
    ELSE 0

\* The number of digits that follow the char at offset i of s without a gap.
RECURSIVE DigitRun(_, _)
DigitRun(s, i) ==
    IF i + 1 <= Len(s) /\ CH_0 <= s[i + 1] /\ s[i + 1] <= CH_9
    THEN 1 + DigitRun(s, i + 1)
    ELSE 0

\* C14: with a large enough destination, the output under a format of
\* precision p >= 0 has exactly p fractional digits after the separator,
\* also for values with lo = 0, and the separator is there whenever p > 0.
C14_ExplicitPrecision ==
    (pc = "formatted" /\ dstSize = LargeDst /\ fmt.precision >= 0) =>
        /\ (fmt.precision > 0 => SeparatorAt(Unpadded) > 0)
        /\ (SeparatorAt(Unpadded) > 0 =>
                DigitRun(Unpadded, SeparatorAt(Unpadded)) = fmt.precision)
        /\ (SeparatorAt(Unpadded) > 0 =>
                SeparatorAt(Unpadded) + fmt.precision = Len(Unpadded))

\* C15: a format with both zero_pad and left_align gives the same output as
\* the format with left_align set and zero_pad clear.
C15_ZeroPadIgnored ==
    (pc = "formatted" /\ fmt.zeroPad /\ fmt.leftAlign) =>
        text = r128ToStringOpt(dstSize, a, [fmt EXCEPT !.zeroPad = FALSE]).text

-----------------------------------------------------------------------------
(* An integer converted to R128 and back, and compared with its predecessor *)

\* a is the dst of r128FromInt, which holds any value before the call.
InitInt ==
    /\ pc = "start"
    /\ a \in R128
    /\ b = R128_zero
    /\ res = NoResult
    /\ text = <<>>
    /\ endptr = NoEnd
    /\ fmt = R128__defaultFormat
    /\ dstSize = BufSize
    /\ ret = 0
    /\ scratch = 0
    /\ num \in S64
    /\ amount = 0
    /\ refine = NoRefine
    /\ ua = 0
    /\ ub = 0

FromInt ==
    /\ pc = "start"
    /\ pc' = "fromInt"
    /\ a' = r128FromInt(num)
    /\ UNCHANGED <<b, res, text, endptr, fmt, dstSize, ret, scratch, num, amount,
                 refine, ua, ub>>

ToInt ==
    /\ pc = "fromInt"
    /\ pc' = "toInt"
    /\ ret' = r128ToInt(a)
    /\ UNCHANGED <<a, b, res, text, endptr, fmt, dstSize, scratch, num, amount,
                 refine, ua, ub>>

\* r128FromInt(&b, num - 1); r128Cmp(&a, &b), for num above the least int.
CmpPrev ==
    /\ pc = "fromInt"
    /\ num - 1 \in S64
    /\ pc' = "cmpPrev"
    /\ b' = r128FromInt(num - 1)
    /\ ret' = r128Cmp(a, r128FromInt(num - 1))
    /\ UNCHANGED <<a, res, text, endptr, fmt, dstSize, scratch, num, amount,
                 refine, ua, ub>>

NextInt == FromInt \/ ToInt \/ CmpPrev

SpecInt == InitInt /\ [][NextInt]_vars

\* C16: for every signed 64-bit n, r128FromInt(n) has lo = 0 and
\* r128ToInt(r128FromInt(n)) = n; for every n > 0,
\* r128Cmp(r128FromInt(n), r128FromInt(n - 1)) = +1.
C16_IntRoundTrip ==
    /\ (pc \in {"fromInt", "toInt", "cmpPrev"} => a.lo = 0)
    /\ (pc = "toInt" => ret = num)
    /\ (pc = "cmpPrev" /\ num > 0 => ret = 1)

\* The least integer has gone through r128FromInt and r128ToInt.
C16_Witness ==
    /\ pc = "toInt"
    /\ num = -TopBit
    /\ a.hi = TopBit
    /\ ret = -TopBit

-----------------------------------------------------------------------------
(* Addition and subtraction of every pair *)

Add ==
    /\ pc = "start"
    /\ pc' = "add"
    /\ res' = Returned(r128Add(a, b), 0)
    /\ UNCHANGED <<a, b, text, endptr, fmt, dstSize, ret, scratch, num, amount,
                 refine, ua, ub>>

Sub ==
    /\ pc = "start"
    /\ pc' = "sub"
    /\ res' = Returned(r128Sub(a, b), 0)
    /\ UNCHANGED <<a, b, text, endptr, fmt, dstSize, ret, scratch, num, amount,
                 refine, ua, ub>>

\* After r128Sub(&res, &R128_zero, &b): r128Add(&res, &b, &res).
AddBack ==
    /\ pc = "sub"
    /\ a = R128_zero
    /\ pc' = "addBack"
    /\ res' = Returned(r128Add(b, Value(res)), 0)
    /\ UNCHANGED <<a, b, text, endptr, fmt, dstSize, ret, scratch, num, amount,
                 refine, ua, ub>>

NextRing == Add \/ Sub \/ AddBack

SpecRing == Init /\ [][NextRing]_vars

\* C17: for all a, b (MIN and MAX and carries across the lo/hi boundary
\* included), r128Add and r128Sub are addition and subtraction of the
\* 128-bit numbers modulo 2^128; r128Add(a, b) = r128Add(b, a);
\* r128Add(a, r128Sub(ZERO, a)) = ZERO; r128Sub(a, b) = r128Add(a, r128Neg(b));
\* r128Neg is negation modulo 2^128, with r128Neg(MIN) = MIN.
C17_RingLaws ==
    /\ (pc = "add" =>
            /\ Raw(Value(res)) = (Raw(a) + Raw(b)) % Word2
            /\ Value(res) = r128Add(b, a))
    /\ (pc = "sub" =>
            /\ Raw(Value(res)) = (Raw(a) - Raw(b) + Word2) % Word2
            /\ Value(res) = r128Add(a, r128Neg(b))
            /\ Raw(r128Neg(b)) = (Word2 - Raw(b)) % Word2
            /\ (b = R128_min => r128Neg(b) = R128_min))
    /\ (pc = "addBack" => Value(res) = R128_zero)

\* A subtraction that borrows from the high word: 1.0 - ulp.
C17_Witness ==
    /\ pc = "sub"
    /\ a = R128_one
    /\ b = R128_smallest
    /\ res.hi = 0
    /\ res.lo = Word - 1

-----------------------------------------------------------------------------
(* Shifting every value by every amount *)

\* The shift amounts tried: MaxShift beyond one full turn in both directions.
MaxShift == 4

Amounts == -(R128Bits + MaxShift) .. R128Bits + MaxShift

InitShift ==
    /\ pc = "start"
    /\ a \in R128
    /\ b = R128_zero
    /\ res = NoResult
    /\ text = <<>>
    /\ endptr = NoEnd
    /\ fmt = R128__defaultFormat
    /\ dstSize = BufSize
    /\ ret = 0
    /\ scratch = 0
    /\ num = 0
    /\ amount \in Amounts
    /\ refine = NoRefine
    /\ ua = 0
    /\ ub = 0

Shl ==
    /\ pc = "start"
    /\ pc' = "shl"
    /\ res' = Returned(r128Shl(a, amount), 0)
    /\ UNCHANGED <<a, b, text, endptr, fmt, dstSize, ret, scratch, num, amount,
                 refine, ua, ub>>

Shr ==
    /\ pc = "start"
    /\ pc' = "shr"
    /\ res' = Returned(r128Shr(a, amount), 0)
    /\ UNCHANGED <<a, b, text, endptr, fmt, dstSize, ret, scratch, num, amount,
                 refine, ua, ub>>

Sar ==
    /\ pc = "start"
    /\ pc' = "sar"
    /\ res' = Returned(r128Sar(a, amount), 0)
    /\ UNCHANGED <<a, b, text, endptr, fmt, dstSize, ret, scratch, num, amount,
                 refine, ua, ub>>

\* After r128Shl(&res, &a, amount): r128Shr(&b, &a, -amount).
ShrOpposite ==
    /\ pc = "shl"
    /\ pc' = "shlShr"
    /\ b' = r128Shr(a, -amount)
    /\ UNCHANGED <<a, res, text, endptr, fmt, dstSize, ret, scratch, num, amount,
                 refine, ua, ub>>

NextShift == Shl \/ Shr \/ Sar \/ ShrOpposite

SpecShift == InitShift /\ [][NextShift]_vars

\* C18 as stated: for every v and every k with -127 <= k <= 127,
\* r128Shl(v, k) = r128Shr(v, -k).
C18_ShiftDuality ==
    (pc = "shlShr" /\ -(R128Bits - 1) <= amount /\ amount <= R128Bits - 1) =>
        Value(res) = b

\* C18 amended: with m = k mod 128, r128Shr(v, -k) is the part of
\* raw(v) * 2^m that r128Shl(v, k) shifts out:
\* raw(v) * 2^m = raw(r128Shr(v, -k)) * 2^128 + raw(r128Shl(v, k)) when
\* m # 0, and both are v when m = 0.
C18_ShiftDualityAmended ==
    pc = "shlShr" =>
        IF amount % R128Bits = 0
        THEN Value(res) = a /\ b = a
        ELSE Raw(a) * Pow(2, amount % R128Bits) = Raw(b) * Word2 + Raw(Value(res))

\* 1.0 shifted left by 1 is 2.0, and shifted right by -1 (that is, by 127)
\* is zero.
C18_Witness ==
    /\ pc = "shlShr"
    /\ a = R128_one
    /\ amount = 1
    /\ Value(res) = MkR128(0, 2)
    /\ b = R128_zero

\* C19: with m = k mod 128 for every int amount k (negative included),
\* r128Shl(v, k) = raw(v) * 2^m mod 2^128, r128Shr(v, k) = floor(raw(v) / 2^m)
\* unsigned, r128Sar(v, k) = floor(signed raw(v) / 2^m) in two's complement;
\* m = 0 is the identity, and r128Sar(v, 127) is ZERO for v >= 0 and all
\* ones for v < 0.
C19_ShiftSemantics ==
    LET m == amount % R128Bits
        p == Pow(2, m)
    IN  /\ (pc = "shl" => Raw(Value(res)) = (Raw(a) * p) % Word2)
        /\ (pc = "shr" => Raw(Value(res)) = Raw(a) \div p)
        /\ (pc = "sar" =>
                Raw(Value(res)) = ((SignedRaw(a) + Word2 * p) \div p) % Word2)
        /\ (pc \in {"shl", "shr", "sar"} /\ m = 0 => Value(res) = a)
        /\ (pc = "sar" /\ amount = R128Bits - 1 =>
                Value(res) = IF a.hi >= TopBit THEN MkR128(Word - 1, Word - 1)
                             ELSE R128_zero)

\* -1.5 shifted right arithmetically by -127 (that is, by 1) is -0.75.
C19_Witness ==
    /\ pc = "sar"
    /\ a = MkR128(TopBit, Word - 2)
    /\ amount = 1 - R128Bits
    /\ Value(res) = MkR128(TopBit \div 2, Word - 1)

-----------------------------------------------------------------------------
(* Comparison, minimum and maximum of every pair *)

Cmp ==
    /\ pc = "start"
    /\ pc' = "cmp"
    /\ ret' = r128Cmp(a, b)
    /\ UNCHANGED <<a, b, res, text, endptr, fmt, dstSize, scratch, num, amount,
                 refine, ua, ub>>

Min ==
    /\ pc = "start"
    /\ pc' = "min"
    /\ res' = Returned(r128Min(a, b), 0)
    /\ UNCHANGED <<a, b, text, endptr, fmt, dstSize, ret, scratch, num, amount,
                 refine, ua, ub>>

Max ==
    /\ pc = "start"
    /\ pc' = "max"
    /\ res' = Returned(r128Max(a, b), 0)
    /\ UNCHANGED <<a, b, text, endptr, fmt, dstSize, ret, scratch, num, amount,
                 refine, ua, ub>>

NextOrder == Cmp \/ Min \/ Max

SpecOrder == Init /\ [][NextOrder]_vars

\* The third operands of the direct check of transitivity: MIN, -1, -ulp, 0,
\* ulp, one half, 1 and MAX.
Thirds ==
    {R128_min, MkR128(0, Word - 1), MkR128(Word - 1, Word - 1), R128_zero,
     R128_smallest, MkR128(TopBit, 0), R128_one, R128_max}

\* C20: for all a, b, c, r128Cmp(a, b) is -1, 0 or +1, is -r128Cmp(b, a), is
\* 0 exactly when a and b are bit-identical, and r128Cmp(a, b) <= 0 and
\* r128Cmp(b, c) <= 0 imply r128Cmp(a, c) <= 0; r128Min(a, b) and
\* r128Max(a, b) are each one of a, b, with the minimum not above and the
\* maximum not below either of them.  r128Cmp is checked to be the order of
\* the signed 128-bit integers for every pair, which makes it transitive
\* for every c; transitivity is also checked as stated for c in Thirds.
C20_TotalOrder ==
    /\ (pc = "cmp" =>
            /\ ret \in {-1, 0, 1}
            /\ ret = -r128Cmp(b, a)
            /\ (ret = 0 <=> a = b)
            /\ (ret = 1 <=> SignedRaw(a) > SignedRaw(b))
            /\ (ret <= 0 =>
                    \A c \in Thirds : r128Cmp(b, c) <= 0 => r128Cmp(a, c) <= 0)
            /\ (ret = -1 <=> SignedRaw(a) < SignedRaw(b)))
    /\ (pc = "min" =>
            /\ Value(res) \in {a, b}
            /\ r128Cmp(Value(res), a) <= 0
            /\ r128Cmp(Value(res), b) <= 0)
    /\ (pc = "max" =>
            /\ Value(res) \in {a, b}
            /\ r128Cmp(Value(res), a) >= 0
            /\ r128Cmp(Value(res), b) >= 0)

\* -ulp (all ones) has been compared with +ulp and found below it.
C20_Witness ==
    /\ pc = "cmp"
    /\ a = MkR128(Word - 1, Word - 1)
    /\ b = R128_smallest
    /\ ret = -1

\* ---------------------------------------------------------------------
\* The unsigned helpers, called on every pair of 128-bit words.
\* ---------------------------------------------------------------------

\* r128__udiv(&res, &a, &b): the quotient, and what the refinement loops did.
Udiv ==
    /\ pc = "start"
    /\ pc' = "udiv"
    /\ \E run \in {r128__udivRun(a, b)} :
           /\ res' = r128__udivResult(run)
           /\ refine' = [first |-> run.first, second |-> run.second,
                         wrapped |-> run.wrapped]
    /\ UNCHANGED <<a, b, text, endptr, fmt, dstSize, ret, scratch, num, amount,
                 ua, ub>>

\* ret = r128__umod(&n, &d) on copies n of a and d of b: ret is the digit
\* returned, res is n after the call, which r128__norm has scaled.
Umod ==
    /\ pc = "start"
    /\ pc' = "umod"
    /\ \E run \in {r128__umod(a, b)} :
           /\ res' = IF run.trap THEN Trapped(run.ndiv)
                     ELSE LET nm == r128__norm(a, b)
                          IN  Returned(IF nm.overflow THEN a ELSE nm.n, run.ndiv)
           /\ ret' = run.q
           /\ refine' = [first |-> run.first, second |-> 0,
                         wrapped |-> run.wrapped]
    /\ UNCHANGED <<a, b, text, endptr, fmt, dstSize, scratch, num, amount,
                 ua, ub>>

\* ret = r128__ucmp(&a, &b).
Ucmp ==
    /\ pc = "start"
    /\ pc' = "ucmp"
    /\ ret' = r128__ucmp(a, b)
    /\ UNCHANGED <<a, b, res, text, endptr, fmt, dstSize, scratch, num, amount,
                 refine, ua, ub>>

NextUnsigned == Udiv \/ Umod \/ Ucmp

SpecUnsigned == Init /\ [][NextUnsigned]_vars

\* C21: for every dividend and every non-zero divisor for which r128__norm
\* reports no overflow, no assertion of r128__udiv (n3 < d1 before the first
\* digit, the updated n2 < d1 before the second) or of r128__umod (n3 < d1)
\* fails.
C21_DigitPreconditions ==
    (/\ pc \in {"udiv", "umod"}
     /\ b # R128_zero
     /\ ~r128__norm(a, b).overflow)
        => ~res.trap

\* C22: each refinement loop of r128__udiv and r128__umod ends having
\* decremented its trial digit at most twice, and never decrements a digit
\* that is 0.
C22_RefinementBounded ==
    pc \in {"udiv", "umod"} =>
        /\ refine.first <= 2
        /\ refine.second <= 2
        /\ ~refine.wrapped

\* C23: r128__ucmp(a, b) is +1, 0 or -1 as a is above, equal to or below b
\* in the order of the unsigned 128-bit integers (hi first, then lo), and
\* is 0 exactly when a and b are the same bits.
C23_UnsignedCompare ==
    pc = "ucmp" =>
        /\ (ret = 1 <=> Raw(a) > Raw(b))
        /\ (ret = 0 <=> a = b)
        /\ (ret = -1 <=> Raw(a) < Raw(b))

\* ---------------------------------------------------------------------
\* The portable 64*64->128 multiply, taken when neither _M_X64 nor
\* __x86_64__ is defined.  It works on halves of an R128_U64, so the word
\* here has 2 * HalfBits bits.
\* ---------------------------------------------------------------------

\* 32 in the source: the bits of an R128_U32.
HalfBits == 3

\* 2^32 and 2^64 in the source.
Half == Pow(2, HalfBits)
Full == Half * Half

\* (R128_U32)x
ToU32(x) == x % Half

\* 32*32->64
r128__umul64(x, y) == x * y

\* _addcarry_u32(c, x, y, &out)
r128__addcarry(c, x, y) ==
    [carry |-> (c + x + y) \div Half, out |-> (c + x + y) % Half]

\* The partial products p0 .. p3 of r128__umul128.
r128__partial(x, y) ==
    LET alo == ToU32(x)
        ahi == ToU32(x \div Half)
        blo == ToU32(y)
        bhi == ToU32(y \div Half)
    IN  [p0 |-> r128__umul64(alo, blo), p1 |-> r128__umul64(alo, bhi),
         p2 |-> r128__umul64(ahi, blo), p3 |-> r128__umul64(ahi, bhi)]

\* r128__umul128 with R128_INTEL: two add-with-carry chains.
r128__umul128_intel(x, y) ==
    LET p  == r128__partial(x, y)
        r0 == ToU32(p.p0)
        r1 == ToU32(p.p0 \div Half)
        r2 == ToU32(p.p1 \div Half)
        r3 == ToU32(p.p3 \div Half)
        c1 == r128__addcarry(0, r1, ToU32(p.p1))
        c2 == r128__addcarry(c1.carry, r2, ToU32(p.p2 \div Half))
        c3 == r128__addcarry(c2.carry, r3, 0)
        c4 == r128__addcarry(0, c1.out, ToU32(p.p2))
        c5 == r128__addcarry(c4.carry, c2.out, ToU32(p.p3))
        c6 == r128__addcarry(c5.carry, c3.out, 0)
    IN  [lo |-> r0 + c4.out * Half, hi |-> c5.out + c6.out * Half]

\* r128__umul128 without R128_INTEL: plain C.  The two high halves of p1 and
\* p2 are R128_U32 and their sum is an R128_U32.
r128__umul128_plain(x, y) ==
    LET p     == r128__partial(x, y)
        carry == (ToU32(p.p1) + ToU32(p.p2) + (p.p0 \div Half)) \div Half
        lo    == (p.p0 + (((p.p1 + p.p2) * Half) % Full)) % Full
        hi    == (p.p3 + ToU32(ToU32(p.p1 \div Half) + ToU32(p.p2 \div Half))
                       + carry) % Full
    IN  [lo |-> lo, hi |-> hi]

\* The R128_U64 operands ua and ub are any two words.
InitPortable ==
    /\ pc = "start"
    /\ a = R128_zero /\ b = R128_zero
    /\ res = NoResult
    /\ text = <<>> /\ endptr = NoEnd
    /\ fmt = R128__defaultFormat /\ dstSize = 0 /\ ret = 0 /\ scratch = 0
    /\ num = 0 /\ amount = 0
    /\ refine = NoRefine
    /\ ua \in 0 .. Full - 1 /\ ub \in 0 .. Full - 1

\* r128__umul128(&res, ua, ub), built with R128_INTEL.
Umul128Intel ==
    /\ pc = "start"
    /\ pc' = "umul128_intel"
    /\ LET dst == r128__umul128_intel(ua, ub)
       IN  res' = [trap |-> FALSE, lo |-> dst.lo, hi |-> dst.hi, ndiv |-> 0]
    /\ UNCHANGED <<a, b, text, endptr, fmt, dstSize, ret, scratch, num, amount,
                 refine, ua, ub>>

\* r128__umul128(&res, ua, ub), built without R128_INTEL.
Umul128Plain ==
    /\ pc = "start"
    /\ pc' = "umul128_plain"
    /\ LET dst == r128__umul128_plain(ua, ub)
       IN  res' = [trap |-> FALSE, lo |-> dst.lo, hi |-> dst.hi, ndiv |-> 0]
    /\ UNCHANGED <<a, b, text, endptr, fmt, dstSize, ret, scratch, num, amount,
                 refine, ua, ub>>

NextPortable == Umul128Intel \/ Umul128Plain

SpecPortable == InitPortable /\ [][NextPortable]_vars

\* C24: on the portable path, in the add-with-carry variant and in the
\* plain-C variant, the result of r128__umul128(ua, ub) is the exact product:
\* hi * 2^64 + lo = ua * ub, also when the high halves of the two middle
\* partial products sum past 2^32.
C24_PortableMultiplyExact ==
    pc \in {"umul128_intel", "umul128_plain"} =>
        res.hi * Full + res.lo = ua * ub

\* The add-with-carry variant alone is exact.
AddCarryVariantExact ==
    pc = "umul128_intel" => res.hi * Full + res.lo = ua * ub

====
